---- MODULE Spec2Model ----
(***************************************************************************)
(* Model of inspection/lib/inspection-stack.ts: the Step Functions state   *)
(* machine StateMachineDataInspector (a linear chain of five ECS RUN_JOB   *)
(* task states with a 30 minute execution timeout) and the custom resource *)
(* customResourceConfigureIndex that creates the OpenSearch index.         *)
(***************************************************************************)
EXTENDS FiniteSets, Integers, Sequences, TLC

VARIABLES
    input,        \* the JSON document the caller submitted (key -> value)
    status,       \* execution status of the run
    cursor,       \* index into wf_chain of the current state, 0 before start
    phase,        \* "idle" | "entered" (state entered) | "inflight" (task running)
    ctx,          \* the state input handed to the current state
    clock,        \* minutes elapsed since the execution started
    launched,     \* sequence of launch records, one per ecs:RunTask issued
    inFlight,     \* names of the states whose ECS task the execution waits on
    cancelled,    \* names of the states whose ECS task was sent ecs:StopTask
    written,      \* Context keys whose location a finished job has written
    succeeded,    \* names of the states that reported success
    failedStage,  \* name of the state that failed the execution, "" if none
    cause         \* error name of the failure, "" if none

runVars == <<input, status, cursor, phase, ctx, clock, launched, inFlight,
             cancelled, written, succeeded, failedStage, cause>>

\* The index bootstrap (custom resource customResourceConfigureIndex)
VARIABLES
    indexState,   \* lifecycle state of the search index
    handler,      \* per concurrent invocation of the handler: its position
    createCalls,  \* number of createIndex calls issued to the search service
    deleteCalls,  \* number of deleteIndex calls issued to the search service
    applies       \* number of lifecycle events delivered so far

bootVars == <<indexState, handler, createCalls, deleteCalls, applies>>

\* A second execution of the same state machine, running at the same time
VARIABLES
    peer          \* the second execution: a record of its own input, status,
                  \* cursor, phase, ctx, clock, launched, inFlight, cancelled,
                  \* succeeded, failedStage and cause

\* the variables of the first execution that belong to it alone; written is
\* the content of the bucket, which both executions write
ownVars == <<input, status, cursor, phase, ctx, clock, launched, inFlight,
             cancelled, succeeded, failedStage, cause>>

vars == <<runVars, bootVars, peer>>

----------------------------------------------------------------------------
(* Bounds of the model. *)

\* minutes that pass in one Tick step
TickMinutes == 10
\* Tick is disabled once the clock has reached this many minutes
MaxClock == 45
\* number of keys of the sample input a caller may omit
MaxMissing == 1
\* number of handler invocations that may run concurrently
NumHandlers == 2
\* number of lifecycle events delivered to the handler in one behaviour
MaxApply == 3

----------------------------------------------------------------------------
(* The five task states of the workflow. *)

runSubsamplerTaskFirstPass ==
    [ name        |-> "SubsamplerFirstPass",
      environment |-> [ S3_INPUT  |-> "S3Input",
                        S3_OUTPUT |-> "S3OutputFirst" ],
      inputPath   |-> "$",
      resultPath  |-> "DISCARD",
      usesIndex   |-> FALSE ]

runSubsamplerTaskSecondPass ==
    [ name        |-> "SubsamplerSecondPass",
      environment |-> [ S3_INPUT  |-> "S3Input",
                        S3_OUTPUT |-> "S3OutputSecond" ],
      inputPath   |-> "$",
      resultPath  |-> "DISCARD",
      usesIndex   |-> FALSE ]

runInspectTask ==
    [ name        |-> "RunInspectTask",
      environment |-> [ S3_INPUT_1  |-> "S3OutputFirst",
                        S3_INPUT_2  |-> "S3OutputSecond",
                        S3_OUTPUT_1 |-> "S3OutputSchema1",
                        S3_OUTPUT_2 |-> "S3OutputSchema2" ],
      inputPath   |-> "$",
      resultPath  |-> "DISCARD",
      usesIndex   |-> FALSE ]

runDupdetectTask ==
    [ name        |-> "RunDupdetectTask",
      environment |-> [ S3_INPUT       |-> "S3OutputSchema2",
                        S3_OUTPUT      |-> "S3OutputDupRank",
                        S3_OUTPUT_DESC |-> "S3OutputTableDesc" ],
      inputPath   |-> "$",
      resultPath  |-> "DISCARD",
      usesIndex   |-> TRUE ]

runCuratorTask ==
    [ name        |-> "RunCuratorTask",
      environment |-> [ S3_INPUT_DATA   |-> "S3Input",
                        S3_INPUT_SCHEMA |-> "S3OutputSchema2",
                        S3_INPUT_DESC   |-> "S3OutputTableDesc",
                        S3_INPUT_DQDL   |-> "S3InputDQDL",
                        S3_OUTPUT_DQDL  |-> "S3OutputDQDL",
                        TABLE_NAME      |-> "TableName" ],
      inputPath   |-> "$",
      resultPath  |-> "DISCARD",
      usesIndex   |-> TRUE ]

\* wf_chain with the curation chained before the duplicate detection
wf_chain_curatorEarly ==
    << runSubsamplerTaskFirstPass, runSubsamplerTaskSecondPass,
       runInspectTask, runCuratorTask, runDupdetectTask >>

\* wf_chain with the inspection chained before the second subsampling pass
wf_chain_swapped ==
    << runSubsamplerTaskFirstPass, runInspectTask,
       runSubsamplerTaskSecondPass, runDupdetectTask, runCuratorTask >>

wf_chain ==
    << runSubsamplerTaskFirstPass, runSubsamplerTaskSecondPass,
       runInspectTask, runDupdetectTask, runCuratorTask >>

\* execution timeout of the state machine, in minutes
timeout == 30

StageNames == { wf_chain[i].name : i \in 1..Len(wf_chain) }

\* the Context keys a state reads through JsonPath.stringAt('$.Key')
Required(st) == { st.environment[n] : n \in DOMAIN st.environment }

\* container environment names under which a job receives a location to write
OutputEnvNames ==
    { "S3_OUTPUT", "S3_OUTPUT_1", "S3_OUTPUT_2", "S3_OUTPUT_DESC",
      "S3_OUTPUT_DQDL" }

\* the Context keys naming the locations the job of a state writes
OutputKeys(st) ==
    { st.environment[n] : n \in (DOMAIN st.environment) \cap OutputEnvNames }

----------------------------------------------------------------------------
(* The submitted input. *)

\* the keys of the sample input of the README
SampleKeys ==
    { "S3Input", "S3OutputFirst", "S3OutputSecond", "S3OutputSchema1",
      "S3OutputSchema2", "S3OutputDupRank", "S3OutputTableDesc", "TableName",
      "S3InputDQDL", "S3OutputDQDL" }

AllOutputKeys == UNION { OutputKeys(wf_chain[i]) : i \in 1..Len(wf_chain) }

\* a non-empty value for key k
Loc(k) == "s3://" \o k

\* the inputs a caller may submit: the sample input with up to MaxMissing keys
\* left out, the output keys either all set to a location or all empty
Inputs ==
    { [ k \in (SampleKeys \ missing) |->
          IF k \in AllOutputKeys /\ emptyOut THEN "" ELSE Loc(k) ] :
      missing \in { m \in SUBSET SampleKeys : Cardinality(m) <= MaxMissing },
      emptyOut \in BOOLEAN }

----------------------------------------------------------------------------
(* Input and output processing of a task state. *)

\* inputPath: '$' selects the whole state input
ApplyInputPath(path, stateInput) ==
    IF path = "$" THEN stateInput ELSE [ k \in {} |-> "" ]

\* ApplyResultPath of resultPath '$': the task result replaces the state input
ApplyResultPath_replace(path, stateInput, result) == result

\* ApplyResultPath that merges the task result into the state input
ApplyResultPath_merge(path, stateInput, result) ==
    [ k \in (DOMAIN stateInput) \cup (DOMAIN result) |->
        IF k \in DOMAIN result THEN result[k] ELSE stateInput[k] ]

\* resultPath: DISCARD drops the task result and passes the state input on;
\* '$' would replace the state input by the task result
ApplyResultPath(path, stateInput, result) ==
    IF path = "DISCARD" THEN stateInput ELSE result

\* the result of an ecs:runTask.sync call: the description of the stopped task
TaskResult(st) == [ k \in {"TaskArn"} |-> st.name ]

\* what a JSON path that matches nothing evaluates to
Undefined == "<undefined>"

\* JsonPath.stringAt('$.key') evaluated against a JSON document
stringAt(doc, key) == IF key \in DOMAIN doc THEN doc[key] ELSE Undefined

\* CanResolve without the check: a path that matches nothing is let through
CanResolve_unchecked(st, effInput) == TRUE

\* CanResolve satisfied as soon as one of the paths matches
CanResolve_some(st, effInput) ==
    \E n \in DOMAIN st.environment :
        stringAt(effInput, st.environment[n]) # Undefined

\* the parameters of a task state resolve only when every path matches
CanResolve(st, effInput) ==
    \A n \in DOMAIN st.environment :
        stringAt(effInput, st.environment[n]) # Undefined

\* the container environment overrides, resolved against the effective input
ResolveEnvironment(st, effInput) ==
    [ n \in DOMAIN st.environment |-> stringAt(effInput, st.environment[n]) ]

\* DeadlineExceeded of a state machine declared without a timeout
DeadlineExceeded_none(t) == FALSE

\* the execution has run longer than the state machine's timeout
DeadlineExceeded(t) == t > timeout


----------------------------------------------------------------------------
(* The index bootstrap handler (lambda/ossetup, lambda_function.on_event). *)

Handlers == 1..NumHandlers

IdleHandler ==
    [ pc |-> "idle", event |-> "None", outcome |-> "None", op |-> 0 ]

\* OnCreate that creates the index again when it is already there
OnCreate_recreate(s) ==
    CASE s \in {"absent", "ready"} ->
                           [ next |-> "creating", call |-> 1, pc |-> "owner",
                             outcome |-> "InProgress" ]
      [] s = "creating" -> [ next |-> "creating", call |-> 0, pc |-> "waiter",
                             outcome |-> "InProgress" ]
      [] OTHER          -> [ next |-> s, call |-> 0, pc |-> "idle",
                             outcome |-> "Failure" ]

\* OnCreate without the single-flight guard: a Create that finds a creation
\* in flight issues its own createIndex call
OnCreate_unguarded(s) ==
    CASE s \in {"absent", "creating"} ->
                           [ next |-> "creating", call |-> 1, pc |-> "owner",
                             outcome |-> "InProgress" ]
      [] s = "ready"    -> [ next |-> "ready", call |-> 0, pc |-> "idle",
                             outcome |-> "Success" ]
      [] OTHER          -> [ next |-> s, call |-> 0, pc |-> "idle",
                             outcome |-> "Failure" ]

\* what the handler does on Create, by the lifecycle state it finds
OnCreate(s) ==
    CASE s = "absent"   -> [ next |-> "creating", call |-> 1, pc |-> "owner",
                             outcome |-> "InProgress" ]
      [] s = "creating" -> [ next |-> "creating", call |-> 0, pc |-> "waiter",
                             outcome |-> "InProgress" ]
      [] s = "ready"    -> [ next |-> "ready", call |-> 0, pc |-> "idle",
                             outcome |-> "Success" ]
      [] OTHER          -> [ next |-> s, call |-> 0, pc |-> "idle",
                             outcome |-> "Failure" ]

\* what the handler does on Delete: deletion is attempted only if the index
\* exists, and a missing index is a Success
OnDelete(s) ==
    CASE s = "ready"    -> [ next |-> "deleting", call |-> 1, pc |-> "owner",
                             outcome |-> "InProgress" ]
      [] s = "deleting" -> [ next |-> "deleting", call |-> 0, pc |-> "waiter",
                             outcome |-> "InProgress" ]
      [] OTHER          -> [ next |-> s, call |-> 0, pc |-> "idle",
                             outcome |-> "Success" ]

InitBoot ==
    /\ indexState = "absent"
    /\ handler = [ h \in Handlers |-> IdleHandler ]
    /\ createCalls = 0
    /\ deleteCalls = 0
    /\ applies = 0

\* A lifecycle event is delivered to invocation h of the handler.  An event
\* of the other kind than the operation in flight is serialized behind it.
on_event(h, ev) ==
    /\ handler[h].pc = "idle"
    /\ applies < MaxApply
    /\ ev = "Create" => indexState # "deleting"
    /\ ev = "Delete" => indexState # "creating"
    /\ LET r == IF ev = "Create" THEN OnCreate(indexState)
                                 ELSE OnDelete(indexState)
           calls == createCalls + deleteCalls
       IN /\ indexState' = r.next
          /\ createCalls' = IF ev = "Create" THEN createCalls + r.call
                                             ELSE createCalls
          /\ deleteCalls' = IF ev = "Delete" THEN deleteCalls + r.call
                                             ELSE deleteCalls
          /\ handler' = [ handler EXCEPT ![h] =
                 [ pc |-> r.pc, event |-> ev, outcome |-> r.outcome,
                   op |-> IF r.pc = "idle" THEN 0 ELSE calls + r.call ] ]
    /\ applies' = applies + 1
    /\ UNCHANGED <<runVars, peer>>

\* The search service answers the call in flight (ack or error); the
\* invocation that issued it and those waiting on it report that outcome
ServiceReply(ok) ==
    /\ indexState \in {"creating", "deleting"}
    /\ indexState' = IF indexState = "creating"
                     THEN (IF ok THEN "ready" ELSE "failed")
                     ELSE (IF ok THEN "absent" ELSE "ready")
    /\ handler' = [ h \in Handlers |->
           IF handler[h].pc = "idle" THEN handler[h]
           ELSE [ handler[h] EXCEPT !.pc = "idle",
                    !.outcome = IF ok THEN "Success" ELSE "Failure" ] ]
    /\ UNCHANGED <<createCalls, deleteCalls, applies>>
    /\ UNCHANGED <<runVars, peer>>

NextBoot ==
    \/ \E h \in Handlers, ev \in {"Create", "Delete"} : on_event(h, ev)
    \/ \E ok \in BOOLEAN : ServiceReply(ok)

----------------------------------------------------------------------------
TypeOK ==
    /\ status \in {"Pending", "Running", "Succeeded", "Failed", "TimedOut"}
    /\ cursor \in 0..Len(wf_chain)
    /\ phase \in {"idle", "entered", "inflight"}
    /\ clock \in 0..(MaxClock + TickMinutes)
    /\ inFlight \subseteq StageNames
    /\ cancelled \subseteq StageNames
    /\ written \subseteq SampleKeys
    /\ succeeded \subseteq StageNames
    /\ failedStage \in StageNames \cup {""}
    /\ cause \in {"", "States.Runtime", "States.TaskFailed"}

InitRun(submitted) ==
    /\ input \in submitted
    /\ status = "Pending"
    /\ cursor = 0
    /\ phase = "idle"
    /\ ctx = input
    /\ clock = 0
    /\ launched = << >>
    /\ inFlight = {}
    /\ cancelled = {}
    /\ written = {}
    /\ succeeded = {}
    /\ failedStage = ""
    /\ cause = ""

\* StartExecution that refuses to start while the index is not ready
StartExecution_gated ==
    /\ UNCHANGED <<bootVars, peer>>
    /\ status = "Pending"
    /\ IF indexState = "ready"
       THEN /\ status' = "Running"
            /\ cursor' = 1
            /\ phase' = "entered"
            /\ UNCHANGED cause
       ELSE /\ status' = "Failed"
            /\ cause' = "ResourceNotReady"
            /\ UNCHANGED <<cursor, phase>>
    /\ ctx' = input
    /\ UNCHANGED <<input, clock, launched, inFlight, cancelled, written,
                   succeeded, failedStage>>

\* StartExecution: the execution starts at the first state of the chain
StartExecution ==
    /\ UNCHANGED <<bootVars, peer>>
    /\ status = "Pending"
    /\ status' = "Running"
    /\ cursor' = 1
    /\ phase' = "entered"
    /\ ctx' = input
    /\ UNCHANGED <<input, clock, launched, inFlight, cancelled, written,
                   succeeded, failedStage, cause>>

\* A task state that was entered resolves its parameters and issues
\* ecs:RunTask; an unresolvable path fails the execution, no task is run
ScheduleTask ==
    /\ UNCHANGED <<bootVars, peer>>
    /\ status = "Running"
    /\ phase = "entered"
    /\ LET st == wf_chain[cursor]
           effInput == ApplyInputPath(st.inputPath, ctx)
       IN IF CanResolve(st, effInput)
          THEN /\ launched' = Append(launched,
                      [ name |-> st.name,
                        environment |-> ResolveEnvironment(st, effInput) ])
               /\ inFlight' = inFlight \cup {st.name}
               /\ phase' = "inflight"
               /\ UNCHANGED <<status, failedStage, cause>>
          ELSE /\ status' = "Failed"
               /\ failedStage' = st.name
               /\ cause' = "States.Runtime"
               /\ phase' = "idle"
               /\ UNCHANGED <<launched, inFlight>>
    /\ UNCHANGED <<input, cursor, ctx, clock, cancelled, written, succeeded>>

\* TaskSucceeded that checks the job wrote every location it was handed
TaskSucceeded_checked(outs) ==
    /\ UNCHANGED <<bootVars, peer>>
    /\ status = "Running"
    /\ phase = "inflight"
    /\ LET st == wf_chain[cursor]
       IN /\ outs \subseteq OutputKeys(st)
          /\ written' = written \cup outs
          /\ succeeded' = succeeded \cup {st.name}
          /\ inFlight' = inFlight \ {st.name}
          /\ ctx' = ApplyResultPath(st.resultPath, ctx, TaskResult(st))
          /\ IF outs # OutputKeys(st)
             THEN /\ status' = "Failed"
                  /\ failedStage' = st.name
                  /\ cause' = "ContractViolation"
                  /\ phase' = "idle"
                  /\ UNCHANGED cursor
             ELSE /\ UNCHANGED <<failedStage, cause>>
                  /\ IF cursor < Len(wf_chain)
                     THEN /\ cursor' = cursor + 1
                          /\ phase' = "entered"
                          /\ UNCHANGED status
                     ELSE /\ status' = "Succeeded"
                          /\ phase' = "idle"
                          /\ UNCHANGED cursor
    /\ UNCHANGED <<input, clock, launched, cancelled>>

\* The job of the current state stopped with exit code 0, having written the
\* locations outs; the chain moves to the next state, or ends the execution
TaskSucceeded(outs) ==
    /\ UNCHANGED <<bootVars, peer>>
    /\ status = "Running"
    /\ phase = "inflight"
    /\ LET st == wf_chain[cursor]
       IN /\ outs \subseteq OutputKeys(st)
          /\ written' = written \cup outs
          /\ succeeded' = succeeded \cup {st.name}
          /\ inFlight' = inFlight \ {st.name}
          /\ ctx' = ApplyResultPath(st.resultPath, ctx, TaskResult(st))
          /\ IF cursor < Len(wf_chain)
             THEN /\ cursor' = cursor + 1
                  /\ phase' = "entered"
                  /\ UNCHANGED status
             ELSE /\ status' = "Succeeded"
                  /\ phase' = "idle"
                  /\ UNCHANGED cursor
    /\ UNCHANGED <<input, clock, launched, cancelled, failedStage, cause>>

\* TaskFailed of a chain whose states catch the error and go on
TaskFailed_caught ==
    /\ UNCHANGED <<bootVars, peer>>
    /\ status = "Running"
    /\ phase = "inflight"
    /\ LET st == wf_chain[cursor]
       IN /\ failedStage' = st.name
          /\ cause' = "States.TaskFailed"
          /\ inFlight' = inFlight \ {st.name}
          /\ IF cursor < Len(wf_chain)
             THEN /\ cursor' = cursor + 1
                  /\ phase' = "entered"
                  /\ UNCHANGED status
             ELSE /\ status' = "Failed"
                  /\ phase' = "idle"
                  /\ UNCHANGED cursor
    /\ UNCHANGED <<input, ctx, clock, launched, cancelled, written,
                   succeeded>>

\* The job of the current state failed (or could not be run): no Catch and no
\* Retry is declared on any state, so the execution fails
TaskFailed ==
    /\ UNCHANGED <<bootVars, peer>>
    /\ status = "Running"
    /\ phase = "inflight"
    /\ LET st == wf_chain[cursor]
       IN /\ status' = "Failed"
          /\ failedStage' = st.name
          /\ cause' = "States.TaskFailed"
          /\ inFlight' = inFlight \ {st.name}
          /\ phase' = "idle"
    /\ UNCHANGED <<input, cursor, ctx, clock, launched, cancelled, written,
                   succeeded>>

\* Time passes while the execution runs; once the execution has run longer
\* than the timeout it is timed out and the RUN_JOB task in flight is stopped
Tick ==
    /\ UNCHANGED <<bootVars, peer>>
    /\ status = "Running"
    /\ clock < MaxClock
    /\ clock' = clock + TickMinutes
    /\ IF DeadlineExceeded(clock')
       THEN /\ status' = "TimedOut"
            /\ cancelled' = cancelled \cup inFlight
            /\ inFlight' = {}
            /\ phase' = "idle"
       ELSE UNCHANGED <<status, cancelled, inFlight, phase>>
    /\ UNCHANGED <<input, cursor, ctx, launched, written, succeeded,
                   failedStage, cause>>

NextRun ==
    \/ StartExecution
    \/ ScheduleTask
    \/ \E outs \in SUBSET AllOutputKeys : TaskSucceeded(outs)
    \/ TaskFailed
    \/ Tick

----------------------------------------------------------------------------
(* The second execution.  Its steps are those of the first, taken on its   *)
(* own record; a finished job writes into the same bucket.                 *)

InitPeer(submitted) ==
    peer \in { [ input |-> i, status |-> "Pending", cursor |-> 0,
                 phase |-> "idle", ctx |-> i, clock |-> 0,
                 launched |-> << >>, inFlight |-> {}, cancelled |-> {},
                 succeeded |-> {}, failedStage |-> "", cause |-> "" ] :
               i \in submitted }

PeerStartExecution ==
    /\ peer.status = "Pending"
    /\ peer' = [ peer EXCEPT !.status = "Running", !.cursor = 1,
                             !.phase = "entered", !.ctx = peer.input ]
    /\ UNCHANGED <<runVars, bootVars>>

PeerScheduleTask ==
    /\ peer.status = "Running"
    /\ peer.phase = "entered"
    /\ LET st == wf_chain[peer.cursor]
           effInput == ApplyInputPath(st.inputPath, peer.ctx)
       IN IF CanResolve(st, effInput)
          THEN peer' = [ peer EXCEPT
                   !.launched = Append(peer.launched,
                       [ name |-> st.name,
                         environment |-> ResolveEnvironment(st, effInput) ]),
                   !.inFlight = peer.inFlight \cup {st.name},
                   !.phase = "inflight" ]
          ELSE peer' = [ peer EXCEPT
                   !.status = "Failed", !.failedStage = st.name,
                   !.cause = "States.Runtime", !.phase = "idle" ]
    /\ UNCHANGED <<runVars, bootVars>>

PeerTaskSucceeded(outs) ==
    /\ peer.status = "Running"
    /\ peer.phase = "inflight"
    /\ LET st == wf_chain[peer.cursor]
           last == peer.cursor = Len(wf_chain)
       IN /\ outs \subseteq OutputKeys(st)
          /\ written' = written \cup outs
          /\ peer' = [ peer EXCEPT
                !.succeeded = peer.succeeded \cup {st.name},
                !.inFlight = peer.inFlight \ {st.name},
                !.ctx = ApplyResultPath(st.resultPath, peer.ctx,
                                        TaskResult(st)),
                !.cursor = IF last THEN peer.cursor ELSE peer.cursor + 1,
                !.phase = IF last THEN "idle" ELSE "entered",
                !.status = IF last THEN "Succeeded" ELSE peer.status ]
    /\ UNCHANGED <<ownVars, bootVars>>

\* PeerTaskFailed of executions that share their status: the failure of a
\* stage of one execution fails the other execution too
PeerTaskFailed_shared ==
    /\ peer.status = "Running"
    /\ peer.phase = "inflight"
    /\ LET st == wf_chain[peer.cursor]
       IN peer' = [ peer EXCEPT
              !.status = "Failed", !.failedStage = st.name,
              !.cause = "States.TaskFailed",
              !.inFlight = peer.inFlight \ {st.name}, !.phase = "idle" ]
    /\ status' = IF status = "Running" THEN "Failed" ELSE status
    /\ UNCHANGED <<input, cursor, phase, ctx, clock, launched, inFlight,
                   cancelled, written, succeeded, failedStage, cause>>
    /\ UNCHANGED bootVars

PeerTaskFailed ==
    /\ peer.status = "Running"
    /\ peer.phase = "inflight"
    /\ LET st == wf_chain[peer.cursor]
       IN peer' = [ peer EXCEPT
              !.status = "Failed", !.failedStage = st.name,
              !.cause = "States.TaskFailed",
              !.inFlight = peer.inFlight \ {st.name}, !.phase = "idle" ]
    /\ UNCHANGED <<runVars, bootVars>>

PeerTick ==
    /\ peer.status = "Running"
    /\ peer.clock < MaxClock
    /\ LET t == peer.clock + TickMinutes
       IN IF DeadlineExceeded(t)
          THEN peer' = [ peer EXCEPT
                   !.clock = t, !.status = "TimedOut",
                   !.cancelled = peer.cancelled \cup peer.inFlight,
                   !.inFlight = {}, !.phase = "idle" ]
          ELSE peer' = [ peer EXCEPT !.clock = t ]
    /\ UNCHANGED <<runVars, bootVars>>

NextPeer ==
    \/ PeerStartExecution
    \/ PeerScheduleTask
    \/ \E outs \in SUBSET AllOutputKeys : PeerTaskSucceeded(outs)
    \/ PeerTaskFailed
    \/ PeerTick

\* the stack is deployed: the one Create event of the custom resource has
\* been handled and the index exists
InitDeployed ==
    /\ indexState = "ready"
    /\ handler = [ h \in Handlers |->
           IF h = 1 THEN [ pc |-> "idle", event |-> "Create",
                           outcome |-> "Success", op |-> 1 ]
           ELSE IdleHandler ]
    /\ createCalls = 1
    /\ deleteCalls = 0
    /\ applies = 1

\* the sample input of the README
SampleInput == [ k \in SampleKeys |-> Loc(k) ]

\* One execution of the deployed state machine
Init == InitRun(Inputs) /\ InitPeer({SampleInput}) /\ InitDeployed

Next == NextRun

Spec == Init /\ [][Next]_vars

\* The lifecycle of the index alone, from the undeployed stack
InitBootstrap == InitRun({SampleInput}) /\ InitPeer({SampleInput}) /\ InitBoot

SpecBootstrap == InitBootstrap /\ [][NextBoot]_vars

\* One execution of the state machine while the index goes through its
\* lifecycle: nothing orders the state machine after the custom resource
NextDeploy == NextRun \/ NextBoot

SpecDeploy == InitBootstrap /\ [][NextDeploy]_vars

\* the inputs of the first of two executions run at the same time: the sample
\* input, which the second is given too, and the sample input without the
\* table name
PairInputs ==
    { SampleInput, [ k \in SampleKeys \ {"TableName"} |-> Loc(k) ] }

\* Two executions of the deployed state machine at the same time
InitPair == InitRun(PairInputs) /\ InitPeer({SampleInput}) /\ InitDeployed

NextPair == NextRun \/ NextPeer

SpecPair == InitPair /\ [][NextPair]_vars

----------------------------------------------------------------------------
(* Properties. *)

\* the names of the states launched so far, in launch order
LaunchedNames == [ k \in DOMAIN launched |-> launched[k].name ]

\* the first state of the chain reading a key the submitted input lacks,
\* 0 if there is none
FirstMissing ==
    LET lacking == { i \in 1..Len(wf_chain) :
                       ~ (Required(wf_chain[i]) \subseteq DOMAIN input) }
    IN IF lacking = {} THEN 0
       ELSE CHOOSE i \in lacking : \A j \in lacking : i <= j

\* the initial Context of the end-to-end scenario: every output key empty
ScenarioInput ==
    [ k \in SampleKeys |-> IF k \in AllOutputKeys THEN "" ELSE Loc(k) ]

\* the order of the five-stage plan
ClaimedOrder ==
    << "SubsamplerFirstPass", "SubsamplerSecondPass", "RunInspectTask",
       "RunDupdetectTask", "RunCuratorTask" >>

\* C1 (fail-fast): once a stage i has failed the run, the run is Failed
\* naming stage i, the stages launched are stages 1..i at most, in chain
\* order, and so no stage after i has been launched.
C1_FailFast ==
    failedStage # "" =>
        /\ status = "Failed"
        /\ \E i \in 1..Len(ClaimedOrder) :
              /\ ClaimedOrder[i] = failedStage
              /\ cursor = i
              /\ Len(launched) <= i
              /\ \A k \in DOMAIN launched : launched[k].name = ClaimedOrder[k]

\* stage 3 failed after stages 1 and 2 succeeded: stages 4 and 5 not launched
C1_Witness ==
    /\ status = "Failed"
    /\ failedStage = "RunInspectTask"
    /\ cause = "States.TaskFailed"
    /\ LaunchedNames = SubSeq(ClaimedOrder, 1, 3)

\* C2 (deadline): a step that takes the elapsed time of a running execution
\* past the 30 minute timeout makes the run TimedOut whatever stage is
\* active, issues a cancellation for the task in flight and launches nothing;
\* a TimedOut run stays TimedOut and launches nothing.
C2_Deadline ==
    [][ /\ (status = "Running" /\ clock' > 30) =>
              /\ status' = "TimedOut"
              /\ launched' = launched
              /\ inFlight \subseteq cancelled'
              /\ inFlight' = {}
              /\ (phase = "inflight" => ClaimedOrder[cursor] \in cancelled')
        /\ (status = "Running" => clock <= 30)
        /\ (status = "TimedOut" => status' = "TimedOut" /\ launched' = launched)
      ]_vars

\* the run timed out while the third stage was in flight, which was cancelled
C2_Witness ==
    /\ status = "TimedOut"
    /\ clock > 30
    /\ cancelled = {"RunInspectTask"}
    /\ LaunchedNames = SubSeq(ClaimedOrder, 1, 3)

\* C3 as stated: when some stage reads a key the submitted Context lacks, the
\* plan is rejected before any stage is launched.
C3_RejectedBeforeLaunch ==
    FirstMissing # 0 => (launched = << >> /\ status \in {"Pending", "Failed"})

\* C3 (amended): when some stage reads a key the submitted Context lacks, the
\* run starts all the same and the missing key is found at run time: the
\* stages before the first one reading the key are launched as usual, that
\* stage and the later ones are never launched, the run never succeeds, and a
\* failure to resolve a path fails the run naming that stage.
C3_MissingInputAtRunTime ==
    FirstMissing # 0 =>
        /\ Len(launched) < FirstMissing
        /\ LaunchedNames = SubSeq(ClaimedOrder, 1, Len(launched))
        /\ status # "Succeeded"
        /\ cursor <= FirstMissing
        /\ (cursor = FirstMissing /\ status = "Failed") =>
               cause = "States.Runtime"
        /\ cause = "States.Runtime" =>
               /\ status = "Failed"
               /\ failedStage = ClaimedOrder[FirstMissing]
               /\ Len(launched) = FirstMissing - 1

\* TableName is missing: four stages were launched and succeeded before the
\* run failed on entering the last one
C3_Witness ==
    /\ "TableName" \notin DOMAIN input
    /\ status = "Failed"
    /\ cause = "States.Runtime"
    /\ failedStage = "RunCuratorTask"
    /\ Len(launched) = 4

C5_OutputsOverwritten ==
    (input = ScenarioInput /\ status = "Succeeded") =>
        \A k \in AllOutputKeys : ctx[k] # ""

\* C5 (amended): when all five stages of the scenario run succeeded the run is
\* Succeeded and the terminal Context is the submitted one: the output keys
\* keep the (empty) values the caller gave them.
C5_EndToEnd ==
    (input = ScenarioInput /\ succeeded = StageNames) =>
        (status = "Succeeded" /\ ctx = ScenarioInput)

\* the scenario run succeeded
C5_Witness ==
    /\ input = ScenarioInput
    /\ status = "Succeeded"
    /\ succeeded = StageNames
    /\ ctx["S3OutputFirst"] = ""

\* C6 (idempotence): as long as no deletion was issued, once a Create has
\* been delivered exactly one createIndex call has been issued in total, and
\* a Create answered on the spot while the index is ready reported Success.
C6_Idempotent ==
    (deleteCalls = 0 /\ \E h \in Handlers : handler[h].event = "Create") =>
        /\ createCalls = 1
        /\ \A h \in Handlers :
              ( /\ handler[h].event = "Create"
                /\ handler[h].pc = "idle"
                /\ handler[h].op = 0
                /\ indexState = "ready" ) => handler[h].outcome = "Success"

\* three Create events in sequence, the last two found the index ready
C6_Witness ==
    /\ applies = 3
    /\ deleteCalls = 0
    /\ createCalls = 1
    /\ indexState = "ready"
    /\ \A h \in {1, 2} : handler[h] = [ pc |-> "idle", event |-> "Create",
                                        outcome |-> "Success", op |-> 0 ]

\* C7 (single-flight): Create invocations in flight at once share one
\* createIndex call, the latest issued, which exactly one invocation issued,
\* and two invocations that shared a call report the same final outcome.
C7_SingleFlight ==
    \A h1, h2 \in Handlers :
        (h1 # h2 /\ handler[h1].event = "Create"
                 /\ handler[h2].event = "Create") =>
            /\ (handler[h1].pc # "idle" /\ handler[h2].pc # "idle") =>
                   /\ handler[h1].op = handler[h2].op
                   /\ ~ (handler[h1].pc = "owner" /\ handler[h2].pc = "owner")
                   /\ \E h \in Handlers : /\ handler[h].pc = "owner"
                                          /\ handler[h].op = handler[h1].op
                   /\ handler[h1].op = createCalls + deleteCalls
                   /\ indexState = "creating"
            /\ ( /\ handler[h1].pc = "idle" /\ handler[h2].pc = "idle"
                 /\ handler[h1].op # 0
                 /\ handler[h1].op = handler[h2].op ) =>
                   /\ handler[h1].outcome = handler[h2].outcome
                   /\ handler[h1].outcome \in {"Success", "Failure"}

\* two concurrent Create invocations both reported the outcome of one call
C7_Witness ==
    /\ createCalls = 1
    /\ applies = 2
    /\ \A h \in {1, 2} : handler[h] = [ pc |-> "idle", event |-> "Create",
                                        outcome |-> "Success", op |-> 1 ]

\* C8 as stated: a run submitted while the index is not ready is rejected,
\* and no stage is launched while the index is not ready.
C8_Gated ==
    [][ /\ (status = "Pending" /\ status' # "Pending" /\ indexState # "ready")
              => status' = "Failed"
        /\ Len(launched') > Len(launched) => indexState = "ready" ]_vars

\* C8 (amended): submission does not look at the index: every submitted run
\* starts at the first stage whatever the state of the index, and a stage
\* that is entered with its keys present is launched whatever the state of
\* the index, also a stage that references the index.
C8_NotGated ==
    [][ /\ (status = "Pending" /\ status' # "Pending") =>
              (status' = "Running" /\ cursor' = 1 /\ phase' = "entered")
        /\ ( /\ status = "Running" /\ phase = "entered"
             /\ phase' # "entered" /\ status' # "TimedOut"
             /\ Required(wf_chain[cursor]) \subseteq DOMAIN ctx ) =>
              (phase' = "inflight" /\ Len(launched') = Len(launched) + 1)
      ]_vars

\* duplicate detection is in flight while the index has not been created
C8_Witness ==
    /\ "RunDupdetectTask" \in inFlight
    /\ indexState \in {"absent", "creating", "failed"}
    /\ createCalls <= 1
    /\ deleteCalls = 0

\* C9 as stated: a stage that reported success without having written every
\* declared output has failed the run, naming that stage.
C9_ContractEnforced ==
    \A i \in 1..Len(wf_chain) :
        ( /\ wf_chain[i].name \in succeeded
          /\ ~ (OutputKeys(wf_chain[i]) \subseteq written) ) =>
            (status = "Failed" /\ failedStage = wf_chain[i].name)

\* C9 (amended): whenever a launched stage reports success the run advances
\* to the next stage, or to Succeeded after the last one, whether or not the
\* job produced its declared outputs; no failure is recorded.
C9_SuccessAdvances ==
    [][ (phase = "inflight" /\ succeeded' # succeeded) =>
            /\ succeeded' = succeeded \cup {ClaimedOrder[cursor]}
            /\ cause' = "" /\ failedStage' = ""
            /\ IF cursor < Len(ClaimedOrder)
               THEN status' = "Running" /\ cursor' = cursor + 1
                    /\ phase' = "entered"
               ELSE status' = "Succeeded" ]_vars

\* the first stage reported success having written nothing, the second runs
C9_Witness ==
    /\ "SubsamplerFirstPass" \in succeeded
    /\ "S3OutputFirst" \notin written
    /\ "SubsamplerSecondPass" \in inFlight

\* C10 (sequential): at most one stage is in flight, the stages are launched
\* in the order of the plan, each only after its predecessor reported
\* success, and a Succeeded run has had all five stages report success.
C10_Sequential ==
    /\ Cardinality(inFlight) <= 1
    /\ Len(launched) <= Len(ClaimedOrder)
    /\ \A k \in DOMAIN launched :
          /\ launched[k].name = ClaimedOrder[k]
          /\ k > 1 => ClaimedOrder[k - 1] \in succeeded
    /\ inFlight \subseteq { launched[k].name : k \in {Len(launched)} \cap DOMAIN launched }
    /\ status = "Succeeded" =>
          /\ LaunchedNames = ClaimedOrder
          /\ "RunCuratorTask" \in succeeded
          /\ succeeded = { ClaimedOrder[k] : k \in DOMAIN ClaimedOrder }
          /\ inFlight = {}

\* the run succeeded after five launches in plan order
C10_Witness ==
    /\ status = "Succeeded"
    /\ LaunchedNames = ClaimedOrder
    /\ clock = 30

\* the first execution as a record of the fields of the second
Own ==
    [ input |-> input, status |-> status, cursor |-> cursor, phase |-> phase,
      ctx |-> ctx, clock |-> clock, launched |-> launched,
      inFlight |-> inFlight, cancelled |-> cancelled,
      succeeded |-> succeeded, failedStage |-> failedStage, cause |-> cause ]

\* the Context, cursor and status of the run r follow from its own input and
\* the outcomes of its own stages
OwnOutcomes(r) ==
    /\ r.ctx = r.input
    /\ r.succeeded = { ClaimedOrder[k] :
                         k \in 1..(IF r.status = "Succeeded" THEN r.cursor
                                   ELSE r.cursor - 1) }
    /\ r.status = "Succeeded" <=> r.succeeded = StageNames
    /\ r.status = "Failed" =>
          /\ r.failedStage = ClaimedOrder[r.cursor]
          /\ r.cause = "States.Runtime" <=>
                 ~ (Required(wf_chain[r.cursor]) \subseteq DOMAIN r.input)
    /\ r.status # "Failed" => r.failedStage = "" /\ r.cause = ""
    /\ r.status = "TimedOut" <=> r.clock > 30
    /\ Len(r.launched) \in { Cardinality(r.succeeded),
                             Cardinality(r.succeeded) + 1 }

\* C11 (isolation): in every interleaving of two runs, no step changes both
\* runs: a step that changes anything of one run (its Context, cursor, status
\* or any other field) leaves the other run as it was; and the Context,
\* cursor and terminal status of each run follow from its own input and its
\* own stages' outcomes, also when both runs were given the same input.
C11_Isolation ==
    [][ /\ (Own' = Own \/ peer' = peer)
        /\ OwnOutcomes(Own)' /\ OwnOutcomes(peer)' ]_vars

\* two runs of the same input: one failed at its second stage while the other
\* succeeded
C11_Witness ==
    /\ input = peer.input
    /\ status = "Failed"
    /\ failedStage = "SubsamplerSecondPass"
    /\ cursor = 2
    /\ peer.status = "Succeeded"
    /\ peer.cursor = 5
    /\ peer.ctx = ctx

\* the keys a caller supplies as inputs of the workflow
CallerInputs == { "S3Input", "S3InputDQDL", "TableName" }

\* the keys each stage reads as the output location of an earlier stage
ClaimedReads ==
    [ SubsamplerFirstPass  |-> {},
      SubsamplerSecondPass |-> {},
      RunInspectTask       |-> { "S3OutputFirst", "S3OutputSecond" },
      RunDupdetectTask     |-> { "S3OutputSchema2" },
      RunCuratorTask       |-> { "S3OutputSchema2", "S3OutputTableDesc" } ]

\* C12 (pass-through): in every state of a run, so after any sequence of
\* stage completions and at termination, the Context has exactly the keys and
\* values of the submitted Context, and every launched stage was handed the
\* values of the submitted Context.
C12_PassThrough ==
    /\ DOMAIN ctx = DOMAIN input
    /\ \A k \in DOMAIN ctx : ctx[k] = input[k]
    /\ \A k \in DOMAIN launched :
          \A n \in DOMAIN launched[k].environment :
             launched[k].environment[n] =
                 stringAt(input, wf_chain[k].environment[n])

\* three stages completed and the fourth runs on the submitted Context
C12_Witness ==
    /\ cursor = 4
    /\ phase = "inflight"
    /\ Cardinality(succeeded) = 3
    /\ DOMAIN ctx = SampleKeys
    /\ ctx["S3OutputSchema2"] = Loc("S3OutputSchema2")
    /\ launched[4].environment["S3_INPUT"] = Loc("S3OutputSchema2")

\* C13 (data flow): every key a launched stage reads as an input location is
\* a caller-supplied input or a key handed, with the same value, as an output
\* location to a stage launched earlier in the run that has reported success;
\* the keys read from earlier stages are the ones listed per stage.
C13_DataFlow ==
    \A k \in DOMAIN launched :
        LET st == wf_chain[k]
            reads == (DOMAIN st.environment) \ OutputEnvNames
        IN /\ { st.environment[n] : n \in reads } \ CallerInputs
                 = ClaimedReads[launched[k].name]
           /\ \A n \in reads :
                 \/ st.environment[n] \in CallerInputs
                 \/ \E j \in 1..(k - 1) :
                      /\ launched[j].name \in succeeded
                      /\ \E m \in (DOMAIN wf_chain[j].environment)
                                     \cap OutputEnvNames :
                            /\ wf_chain[j].environment[m] = st.environment[n]
                            /\ launched[j].environment[m]
                                   = launched[k].environment[n]

\* the curation runs on the schema and the description written by the third
\* and fourth stages
C13_Witness ==
    /\ Len(launched) = 5
    /\ "RunCuratorTask" \in inFlight
    /\ launched[5].environment["S3_INPUT_SCHEMA"]
           = launched[3].environment["S3_OUTPUT_2"]
    /\ launched[5].environment["S3_INPUT_DESC"]
           = launched[4].environment["S3_OUTPUT_DESC"]
    /\ {"RunInspectTask", "RunDupdetectTask"} \subseteq succeeded


====
